---- MODULE Spec2Model ----
(***************************************************************************)
(* A model of smartppt: the outline client (src/llm/llm_api.py), the       *)
(* content planner (src/planner/content_planner.py) and the presentation   *)
(* writer (src/writer/ppt_writer.py).                                      *)
(*                                                                         *)
(* Text.  A Python str is a sequence of symbols.  A symbol is one          *)
(* character, written as a TLA+ string: " " "\t" "\n" "-" "*" "." ":"      *)
(* "[" "]" "," digits and letters.  Some characters are named: "BQ" is    *)
(* the backquote, "BULLET" the bullet glyph U+2022, and "di" "ye" "zong"   *)
(* "jie" "gai" "shu" the CJK characters of the page and summary markers.   *)
(* A symbol whose name starts with "#" stands for a fixed text fragment of *)
(* an f-string template (the fragment is never cut by the code), and the   *)
(* symbols of JsonObjectSymbols stand for the text of one JSON object.     *)
(*                                                                         *)
(* Values.  A Python value whose type the code inspects is a record with   *)
(* a tag t: PStr, PNone, PInt, PList, PDict below.                         *)
(***************************************************************************)
EXTENDS Integers, Sequences, FiniteSets, TLC

VARIABLES
    api_key,      \* LLMApi.api_key
    base_url,     \* LLMApi.base_url
    model,        \* LLMApi.model
    headers,      \* LLMApi.headers["Authorization"]
    op,           \* the method of LLMApi that is running ("none": no call)
    pc,           \* position of the running call
    topic,        \* argument of the running call
    num_pages,    \* argument of the running call
    response,     \* what _call_llm returned to generate_outline
    exc,          \* the exception in flight ("none": no exception)
    result,       \* the list the running call returns
    connected,    \* what test_connection returns
    raised,       \* TRUE when the call left an exception to its caller
    trace,        \* the steps the running call has taken, in order
    fbFirst,      \* the first direct call of _generate_fallback_content
    w_op,         \* the method of PPTWriter that was called ("none": no call)
    w_content,    \* its argument formatted_content
    w_template,   \* its argument template_path: the file at that path
    w_path,       \* its argument output_path
    w_style,      \* its argument style
    w_env,        \* what the library and the file system do during the call
    w_out,        \* how the call ended
    s_pc,         \* position of the run of main() ("idle": no run)
    s_in,         \* what the user entered and pressed before the run
    s_tmp,        \* template_file of the run: 0 for None, else the file's number
    s_files,      \* the temporary files that exist
    s_runs,       \* the number of runs of main() so far
    s_output      \* TRUE when the file at output_path exists

clientVars == <<api_key, base_url, model, headers>>
callVars == <<op, pc, topic, num_pages, response, exc, result, connected,
              raised, trace>>
writerVars == <<w_op, w_content, w_template, w_path, w_style, w_env, w_out>>
shellVars == <<s_pc, s_in, s_tmp, s_files, s_runs, s_output>>
vars == <<clientVars, callVars, fbFirst, writerVars, shellVars>>

(***************************************************************************)
(* Bounds of the model.                                                    *)
(***************************************************************************)
MaxPages == 5
MaxItems == 6
MaxLines == 2
MaxSlides == 2
MaxRuns == 2
MaxTextLines == 3

(***************************************************************************)
(* Python values.                                                          *)
(***************************************************************************)
PNone == [t |-> "none"]
PStr(s) == [t |-> "str", s |-> s]
PInt(n) == [t |-> "int", n |-> n]
PList(items) == [t |-> "list", items |-> items]
PDict(d) == [t |-> "dict", d |-> d]

IsStr(v) == v.t = "str"
IsList(v) == v.t = "list"
IsDict(v) == v.t = "dict"

(***************************************************************************)
(* str methods.                                                            *)
(***************************************************************************)
Whitespace == {" ", "\t", "\n"}

RECURSIVE LStripSet(_, _)
LStripSet(s, chars) ==
    IF s # <<>> /\ Head(s) \in chars THEN LStripSet(Tail(s), chars) ELSE s

RECURSIVE RStripSet(_, _)
RStripSet(s, chars) ==
    IF s # <<>> /\ s[Len(s)] \in chars
    THEN RStripSet(SubSeq(s, 1, Len(s) - 1), chars)
    ELSE s

Strip(s) == RStripSet(LStripSet(s, Whitespace), Whitespace)

StartsWith(s, p) == Len(s) >= Len(p) /\ SubSeq(s, 1, Len(p)) = p

EndsWith(s, p) ==
    Len(s) >= Len(p) /\ SubSeq(s, Len(s) - Len(p) + 1, Len(s)) = p

StartsWithAny(s, ps) == \E p \in ps : StartsWith(s, p)

Contains(s, p) ==
    \E i \in 1..(Len(s) - Len(p) + 1) : SubSeq(s, i, i + Len(p) - 1) = p

LowerChar(c) ==
    CASE c = "P" -> "p"
      [] c = "S" -> "s"
      [] c = "T" -> "t"
      [] c = "U" -> "u"
      [] OTHER -> c

Lower(s) == [i \in 1..Len(s) |-> LowerChar(s[i])]

IndexOf(s, c) ==
    IF \E i \in 1..Len(s) : s[i] = c
    THEN CHOOSE i \in 1..Len(s) : s[i] = c /\ \A j \in 1..(i - 1) : s[j] # c
    ELSE 0

\* s.split(sep): the pieces of s between the occurrences of sep
RECURSIVE Split(_, _)
Split(s, sep) ==
    LET i == IndexOf(s, sep) IN
    IF i = 0 THEN <<s>>
    ELSE <<SubSeq(s, 1, i - 1)>> \o Split(SubSeq(s, i + 1, Len(s)), sep)

\* str(n) of a natural number
DigitChar == <<"0", "1", "2", "3", "4", "5", "6", "7", "8", "9">>

RECURSIVE Str(_)
Str(n) ==
    IF n < 10 THEN <<DigitChar[n + 1]>>
    ELSE Str(n \div 10) \o <<DigitChar[(n % 10) + 1]>>

(***************************************************************************)
(* json.loads, on the JSON texts the model writes: whitespace, numbers,    *)
(* arrays, and objects (one symbol per object).                            *)
(***************************************************************************)
JsonWhitespace == {" ", "\t", "\n"}
JsonDigits == {"0", "1", "2", "3", "4", "5", "6", "7", "8", "9"}
JsonObjectSymbols == {"A", "B"}

\* the dict a JSON object symbol parses to
JsonObject(sym) ==
    IF sym = "A"
    THEN PDict([title |-> PStr(<<"a">>),
                summary |-> PStr(<<"s">>),
                points |-> PList(<<
                    PDict([main_point |-> PStr(<<"m">>),
                           supporting_facts |-> PList(<<
                               PDict([fact |-> PStr(<<"f">>),
                                      explanation |-> PStr(<<"e">>)]),
                               PStr(<<"g">>)>>)])>>)])
    ELSE PDict([summary |-> PStr(<<"s">>),
                points |-> PList(<<PStr(<<"m">>)>>)])

PNum(digits) == [t |-> "number", digits |-> digits]

JsonFail == [ok |-> FALSE, val |-> PNone, next |-> 0]

RECURSIVE SkipWs(_, _)
SkipWs(s, i) ==
    IF i <= Len(s) /\ s[i] \in JsonWhitespace THEN SkipWs(s, i + 1) ELSE i

RECURSIVE DigitsEnd(_, _)
DigitsEnd(s, i) ==
    IF i <= Len(s) /\ s[i] \in JsonDigits THEN DigitsEnd(s, i + 1) ELSE i

\* a number at s[i]: an integer part without a leading zero, then an
\* optional fraction
ParseNumber(s, i) ==
    LET e == IF s[i] = "0" THEN i + 1 ELSE DigitsEnd(s, i)
        f == IF e <= Len(s) /\ s[e] = "." THEN DigitsEnd(s, e + 1) ELSE e
    IN  IF e <= Len(s) /\ s[e] = "." /\ f = e + 1 THEN JsonFail
        ELSE [ok |-> TRUE, val |-> PNum(SubSeq(s, i, f - 1)), next |-> f]

RECURSIVE ParseValue(_, _)
RECURSIVE ParseElements(_, _, _)

ParseValue(s, i) ==
    LET j == SkipWs(s, i) IN
    IF j > Len(s) THEN JsonFail
    ELSE IF s[j] \in JsonObjectSymbols
         THEN [ok |-> TRUE, val |-> JsonObject(s[j]), next |-> j + 1]
    ELSE IF s[j] \in JsonDigits THEN ParseNumber(s, j)
    ELSE IF s[j] = "["
         THEN LET k == SkipWs(s, j + 1) IN
              IF k <= Len(s) /\ s[k] = "]"
              THEN [ok |-> TRUE, val |-> PList(<<>>), next |-> k + 1]
              ELSE ParseElements(s, j + 1, <<>>)
    ELSE JsonFail

ParseElements(s, i, acc) ==
    LET v == ParseValue(s, i) IN
    IF ~v.ok THEN JsonFail
    ELSE LET k == SkipWs(s, v.next) IN
         IF k > Len(s) THEN JsonFail
         ELSE IF s[k] = "," THEN ParseElements(s, k + 1, Append(acc, v.val))
         ELSE IF s[k] = "]"
              THEN [ok |-> TRUE, val |-> PList(Append(acc, v.val)), next |-> k + 1]
         ELSE JsonFail

\* json.loads(s): ok is FALSE where it raises json.JSONDecodeError
JsonLoads(s) ==
    LET v == ParseValue(s, 1) IN
    IF v.ok /\ SkipWs(s, v.next) > Len(s)
    THEN [ok |-> TRUE, val |-> v.val]
    ELSE [ok |-> FALSE, val |-> PNone]

(***************************************************************************)
(* LLMApi._generate_fallback_content.                                      *)
(***************************************************************************)
Fact(f, e) == PDict([fact |-> PStr(f), explanation |-> PStr(e)])

Point(mp, facts) ==
    PDict([main_point |-> PStr(mp), supporting_facts |-> PList(facts)])

Slide(title, summary, points) ==
    PDict([title |-> PStr(title), summary |-> PStr(summary),
           points |-> PList(points)])

\* the first page (lines 289-346)
IntroSlide(tp) ==
    Slide(tp \o <<"# - introduction">>,
          <<"#today we explore ">> \o tp \o <<"#, a rich topic">>,
          << Point(<<"#what is ">> \o tp,
                   << Fact(tp \o <<"# basic definition">>, <<"#core concept">>),
                      Fact(tp \o <<"# standing in its field">>, <<"#importance">>) >>),
             Point(tp \o <<"# importance">>,
                   << Fact(<<"#drives the industry">>, <<"#industry upgrade">>),
                      Fact(<<"#meets user needs">>, <<"#solves problems">>) >>),
             Point(tp \o <<"# history">>,
                   << Fact(tp \o <<"# background">>, <<"#origin">>),
                      Fact(tp \o <<"# stages">>, <<"#milestones">>) >>),
             Point(<<"#agenda of this talk">>,
                   << Fact(<<"#will cover ">> \o tp \o <<"# in all aspects">>,
                           <<"#full analysis">>),
                      Fact(<<"#detailed analysis and data">>, <<"#data support">>) >>) >>)

\* PartSlide numbering the page by the loop index itself
PartSlideByLoopIndex(tp, i) ==
    Slide(tp \o <<"# - ", "di">> \o Str(i) \o <<"#part">>, <<>>, <<>>)

\* a middle page, for the loop index i of range(1, num_pages - 1)
\* (lines 349-407); the page is numbered i + 1
PartSlide(tp, i) ==
    LET n == Str(i + 1) IN
    Slide(tp \o <<"# - ", "di">> \o n \o <<"#part">>,
          <<"#after the basics of ">> \o tp \o <<"#, aspect ", "di">> \o n
              \o <<"#, with surprises">>,
          << Point(tp \o <<"#'s ", "di">> \o n \o <<"# core point">>,
                   << Fact(tp \o <<"# features">>, <<"#key features">>),
                      Fact(tp \o <<"# data and statistics">>, <<"#data support">>) >>),
             Point(tp \o <<"#'s ", "di">> \o n \o <<"# key factor">>,
                   << Fact(tp \o <<"# factor analysis">>, <<"#drivers">>),
                      Fact(tp \o <<"# market feedback">>, <<"#market performance">>) >>),
             Point(tp \o <<"#'s ", "di">> \o n \o <<"# trend">>,
                   << Fact(tp \o <<"# current status">>, <<"#status analysis">>),
                      Fact(tp \o <<"# future direction">>, <<"#outlook">>) >>),
             Point(tp \o <<"#'s ", "di">> \o n \o <<"# case study">>,
                   << Fact(tp \o <<"# application cases">>, <<"#practice cases">>),
                      Fact(tp \o <<"# success stories">>, <<"#lessons">>) >>) >>)

\* the last page (lines 410-468)
SummarySlide(tp) ==
    Slide(tp \o <<"# - summary">>,
          <<"#having explored ">> \o tp \o <<"#, let us review">>,
          << Point(tp \o <<"# recap">>,
                   << Fact(<<"#covered ">> \o tp \o <<"# key knowledge">>,
                           <<"#core points">>),
                      Fact(tp \o <<"# data and cases">>, <<"#data support">>) >>),
             Point(tp \o <<"# key takeaways">>,
                   << Fact(tp \o <<"# main aspects">>, <<"#key content">>),
                      Fact(tp \o <<"# points of attention">>, <<"#focus">>) >>),
             Point(tp \o <<"# outlook">>,
                   << Fact(tp \o <<"# trend forecast">>, <<"#prospects">>),
                      Fact(tp \o <<"# opportunities">>, <<"#opportunity">>) >>),
             Point(tp \o <<"# action items">>,
                   << Fact(tp \o <<"# implementation advice">>, <<"#guidance">>),
                      Fact(tp \o <<"# next steps">>, <<"#action plan">>) >>) >>)

\* the pages appended by the loop "for i in range(1, num_pages - 1)", from i on
RECURSIVE PartSlides(_, _, _)
PartSlides(tp, i, n) ==
    IF i >= n - 1 THEN <<>>
    ELSE <<PartSlide(tp, i)>> \o PartSlides(tp, i + 1, n)

\* a generator that reads the client: the model name goes into the topic
GenerateFallbackReadingClient(tp, n) ==
    <<IntroSlide(tp \o <<model>>)>> \o PartSlides(tp, 1, n)
        \o (IF n > 1 THEN <<SummarySlide(tp)>> ELSE <<>>)

GenerateFallbackContent(tp, n) ==
    <<IntroSlide(tp)>> \o PartSlides(tp, 1, n)
        \o (IF n > 1 THEN <<SummarySlide(tp)>> ELSE <<>>)

(***************************************************************************)
(* LLMApi._extract_content_from_text.                                      *)
(***************************************************************************)
PageKeywords ==
    {<<"di">>, <<"p", "a", "g", "e">>, <<"s", "l", "i", "d", "e">>, <<"ye">>}

SummaryPrefixes ==
    {<<"zong", "jie">>, <<"s", "u", "m", "m", "a", "r", "y">>, <<"gai", "shu">>}

BulletPrefixes ==
    {<<"-">>, <<"BULLET">>, <<"*">>, <<"1", ".">>, <<"2", ".">>, <<"3", ".">>}

PointStripChars ==
    {"-", "BULLET", "*", "1", "2", "3", "4", "5", "6", "7", "8", "9", ".", " "}

FactPrefixes ==
    {<<" ", " ">>, <<"\t">>, <<" ", " ", "-">>, <<" ", " ", "BULLET">>}

FactStripChars == {" ", "\t", "-", "BULLET", "*"}

OverviewSuffix == <<"#'s overview">>

\* the loop's variables before the first line: pages, current_page (a
\* sequence holding the page, empty for None) and whether current_point is
\* set; current_point, when set, is the last point of current_page
ExtractStart == [pages |-> <<>>, current_page |-> <<>>, current_point |-> FALSE]

IsPageMarker(line) == \E kw \in PageKeywords : Contains(Lower(line), kw)

\* line.split(':', 1)[1] if ':' in line else line
SummaryOf(line) ==
    LET i == IndexOf(line, ":") IN
    IF i > 0 THEN SubSeq(line, i + 1, Len(line)) ELSE line

AddPoint(page, point) ==
    [page EXCEPT !.d.points.items = Append(@, point)]

\* current_point["supporting_facts"].append(fact)
AddFact(page, fact) ==
    LET k == Len(page.d.points.items) IN
    [page EXCEPT !.d.points.items[k].d.supporting_facts.items = Append(@, fact)]

\* one pass of the loop body (lines 218-249)
ExtractLine(st, raw) ==
    LET line == Strip(raw) IN
    IF line = <<>> THEN st
    ELSE IF IsPageMarker(line)
    THEN [pages |-> IF st.current_page # <<>>
                    THEN Append(st.pages, st.current_page[1])
                    ELSE st.pages,
          current_page |-> <<Slide(line, line \o OverviewSuffix, <<>>)>>,
          current_point |-> FALSE]
    ELSE IF st.current_page # <<>> /\ StartsWithAny(line, SummaryPrefixes)
    THEN [st EXCEPT !.current_page[1].d.summary = PStr(SummaryOf(line))]
    ELSE IF st.current_page # <<>> /\ StartsWithAny(line, BulletPrefixes)
    THEN LET point_text == LStripSet(line, PointStripChars) IN
         IF point_text # <<>>
         THEN [st EXCEPT !.current_page[1] = AddPoint(@, Point(point_text, <<>>)),
                         !.current_point = TRUE]
         ELSE st
    ELSE IF st.current_point /\ StartsWithAny(line, FactPrefixes)
    THEN LET fact == LStripSet(line, FactStripChars) IN
         IF fact # <<>>
         THEN [st EXCEPT !.current_page[1] = AddFact(@, PStr(fact))]
         ELSE st
    ELSE st

RECURSIVE ExtractLines(_, _)
ExtractLines(st, lines) ==
    IF lines = <<>> THEN st
    ELSE ExtractLines(ExtractLine(st, Head(lines)), Tail(lines))

\* PadPage numbering its page from 0
PadPageFromZero(k) ==
    Slide(<<"di">> \o Str(k - 1) \o <<"ye">>, <<>>, <<>>)

\* the page the padding loop appends when len(pages) + 1 = k (lines 256-275)
PadPage(k) ==
    Slide(<<"di">> \o Str(k) \o <<"ye">>,
          <<"di">> \o Str(k) \o <<"ye">> \o OverviewSuffix,
          [i \in 1..3 |->
              Point(<<"#point">> \o Str(k) \o <<"-">> \o Str(i),
                    << Fact(<<"#fact">> \o Str(k) \o <<"-">> \o Str(i) \o <<"-", "1">>,
                            <<"#brief">>),
                       Fact(<<"#fact">> \o Str(k) \o <<"-">> \o Str(i) \o <<"-", "2">>,
                            <<"#brief">>) >>)])

RECURSIVE PadPages(_, _)
PadPages(pages, n) ==
    IF Len(pages) < n THEN PadPages(Append(pages, PadPage(Len(pages) + 1)), n)
    ELSE pages

\* pages[:n]
Truncate(pages, n) == IF Len(pages) > n THEN SubSeq(pages, 1, n) ELSE pages

ExtractContentFromText(text, n) ==
    LET st == ExtractLines(ExtractStart, Split(text, "\n"))
        pages == IF st.current_page # <<>>
                 THEN Append(st.pages, st.current_page[1])
                 ELSE st.pages
    IN  Truncate(PadPages(pages, n), n)

(***************************************************************************)
(* LLMApi._parse_outline_response, up to the call of the text extraction.  *)
(***************************************************************************)
FenceJson == <<"BQ", "BQ", "BQ", "j", "s", "o", "n">>
Fence == <<"BQ", "BQ", "BQ">>
PlaceholderTopic == <<"#supplement">>

\* lines 173-178
CleanResponse(r) ==
    LET a == Strip(r)
        b == IF StartsWith(a, FenceJson) THEN SubSeq(a, 8, Len(a)) ELSE a
        c == IF EndsWith(b, Fence) THEN SubSeq(b, 1, Len(b) - 3) ELSE b
    IN  Strip(c)

\* AdjustPages with its adjustment left out
AdjustPagesUnadjusted(content, n) == content

\* AdjustPages padding with a fallback outline of n pages, not n - len(content)
AdjustPagesPadFull(content, n) ==
    IF Len(content) = n THEN content
    ELSE IF Len(content) > n THEN SubSeq(content, 1, n)
    ELSE content \o GenerateFallbackContent(PlaceholderTopic, n)

\* AdjustPages keeping the last n entries, not the first n
AdjustPagesKeepLast(content, n) ==
    IF Len(content) = n THEN content
    ELSE IF Len(content) > n
         THEN SubSeq(content, Len(content) - n + 1, Len(content))
    ELSE content \o GenerateFallbackContent(PlaceholderTopic, n - Len(content))

\* lines 188-198, for the list content that json.loads returned
AdjustPages(content, n) ==
    IF Len(content) = n THEN content
    ELSE IF Len(content) > n THEN SubSeq(content, 1, n)
    ELSE content \o GenerateFallbackContent(PlaceholderTopic, n - Len(content))

\* lines 171-204: returned is TRUE when the try block returns a list, and
\* FALSE when control reaches the text extraction of line 208
ParseOutlineResponse(resp, n) ==
    IF ~IsStr(resp) THEN [returned |-> FALSE, pages |-> <<>>]
    ELSE LET j == JsonLoads(CleanResponse(resp.s)) IN
         IF j.ok /\ IsList(j.val)
         THEN [returned |-> TRUE, pages |-> AdjustPages(j.val.items, n)]
         ELSE [returned |-> FALSE, pages |-> <<>>]

(***************************************************************************)
(* The inputs: constructor arguments, topics, and what the endpoint does.  *)
(***************************************************************************)
KeyNone == "None"
Keys == {KeyNone, "", "sk-1"}
DefaultUrl == "https://api.openai.com/v1"
Urls == {DefaultUrl, "https://api.siliconflow.cn/v1"}
Models == {"gpt-3.5-turbo", "Qwen/Qwen2.5-7B-Instruct"}
Topics == {<<"T">>, <<"U">>}
PageCounts == 1..MaxPages

\* the sequences over S of length 0..n
RECURSIVE SeqsUpTo(_, _)
SeqsUpTo(S, n) ==
    IF n = 0 THEN {<<>>}
    ELSE LET shorter == SeqsUpTo(S, n - 1) IN
         shorter \cup {Append(q, x) : q \in {r \in shorter : Len(r) = n - 1}, x \in S}

RECURSIVE JoinWith(_, _)
JoinWith(parts, sep) ==
    IF parts = <<>> THEN <<>>
    ELSE IF Len(parts) = 1 THEN parts[1]
    ELSE parts[1] \o <<sep>> \o JoinWith(Tail(parts), sep)

\* the text of a JSON array of the objects syms
JsonListText(syms) ==
    <<"[">> \o JoinWith([i \in 1..Len(syms) |-> <<syms[i]>>], ",") \o <<"]">>

JsonListTexts == {JsonListText(q) : q \in SeqsUpTo(JsonObjectSymbols, MaxItems)}

\* a text inside a code fence, the opening fence followed by tag
Fenced(tag, body) == Fence \o tag \o <<"\n">> \o body \o <<"\n">> \o Fence

FencedTexts ==
    {Fenced(tag, body) : tag \in {<<>>, <<"j", "s", "o", "n">>},
                         body \in {JsonListText(q) :
                                     q \in {<<"A">>, <<"B", "A">>, <<"A", "B", "A">>}}}

\* JSON texts that are not arrays: two numbers and an object
JsonOtherTexts == {<<"7">>, <<"1", ".", "5">>, <<"A">>}

SampleLines ==
    { <<"di", "1", "ye">>,             \* a page marker
      <<"P", "a", "g", "e">>,          \* a page marker in upper case
      <<"-", " ", "x">>,               \* bullets
      <<"1", ".", "x">>,
      <<"4", ".", "x">>,
      <<" ", " ", "y">>,               \* indented lines
      <<"\t", "-", "y">>,
      <<"zong", "jie", ":", "z">>,     \* a summary line
      <<"x", "y">>,                    \* plain text
      <<>> }

PlainTexts ==
    {JoinWith(q, "\n") : q \in SeqsUpTo(SampleLines, MaxLines) \ {<<>>}}

Responses == JsonListTexts \cup FencedTexts \cup JsonOtherTexts \cup PlainTexts

\* choices[0].message.content: a string, null, or an array
Contents == {PStr(r) : r \in Responses} \cup {PNone, PList(<<>>)}

Outcome(kind, code, e, content) ==
    [kind |-> kind, code |-> code, exc |-> e, content |-> content]

\* what requests.post and response.json() do: the request raises, or a
\* response with a status code arrives whose body is unusable or holds content
HttpOutcomes ==
    {Outcome("raise", 0, e, PNone) : e \in {"ConnectionError", "Timeout"}}
    \cup {Outcome("response", c, "none", PNone) : c \in {201, 404, 500}}
    \cup {Outcome("badbody", 200, e, PNone) : e \in {"JSONDecodeError", "KeyError"}}
    \cup {Outcome("response", 200, "none", c) : c \in Contents}

(***************************************************************************)
(* LLMApi: the constructor, set_config, _call_llm, generate_outline,       *)
(* test_connection.                                                        *)
(***************************************************************************)
\* not self.api_key
KeyMissing(k) == k \in {KeyNone, ""}

Bearer(k) == <<"Bearer ", k>>

\* fbFirst before any direct call of _generate_fallback_content; once set it
\* holds the arguments and the outline of the first call and self.model at
\* that moment
NoFallback ==
    [set |-> FALSE, topic |-> <<>>, num_pages |-> 0, out |-> <<>>, model |-> ""]

\* no call is running
IdleFrame ==
    /\ op = "none"
    /\ pc = "idle"
    /\ topic = <<>>
    /\ num_pages = 0
    /\ response = PNone
    /\ exc = "none"
    /\ result = <<>>
    /\ connected = "none"
    /\ raised = FALSE
    /\ trace = <<>>

\* LLMApi(api_key, base_url, model)
Init ==
    /\ api_key \in Keys
    /\ base_url \in Urls
    /\ model \in Models
    /\ headers = IF KeyMissing(api_key) THEN <<>> ELSE Bearer(api_key)
    /\ IdleFrame
    /\ fbFirst = NoFallback
    /\ w_op = "none"
    /\ w_content = <<>>
    /\ w_template = [ok |-> FALSE, layouts |-> <<>>, slides |-> <<>>]
    /\ w_path = ""
    /\ w_style = ""
    /\ w_env = [strict |-> FALSE, template_save_ok |-> FALSE,
                blank_save_ok |-> FALSE]
    /\ w_out = [exc |-> "none", ret |-> "", saved |-> FALSE, file |-> <<>>,
                template_exc |-> "none", calls |-> <<>>]
    /\ s_pc = "idle"
    /\ s_in = [use_template |-> FALSE, uploaded |-> FALSE, api_key |-> FALSE,
               topic |-> FALSE, generate_btn |-> FALSE]
    /\ s_tmp = 0
    /\ s_files = {}
    /\ s_runs = 0
    /\ s_output = FALSE

\* set_config(api_key, base_url, model); "None" is an argument left out
SetConfig(k, u, m) ==
    /\ pc = "idle"
    /\ api_key' = IF k # KeyNone THEN k ELSE api_key
    /\ headers' = IF k # KeyNone THEN Bearer(k) ELSE headers
    /\ base_url' = IF u # "None" THEN u ELSE base_url
    /\ model' = IF m # "None" THEN m ELSE model
    /\ UNCHANGED <<callVars, fbFirst, writerVars, shellVars>>

\* _call_llm with the endpoint behaving as o: the exception it raises
\* ("none" when it returns) and the content it returns, and whether it
\* sent the request
CallLlmResult(k, o) ==
    IF KeyMissing(k) THEN [sent |-> FALSE, exc |-> "ValueError", content |-> PNone]
    ELSE IF o.kind = "raise" THEN [sent |-> TRUE, exc |-> o.exc, content |-> PNone]
    ELSE IF o.code # 200 THEN [sent |-> TRUE, exc |-> "Exception", content |-> PNone]
    ELSE IF o.kind = "badbody" THEN [sent |-> TRUE, exc |-> o.exc, content |-> PNone]
    ELSE [sent |-> TRUE, exc |-> "none", content |-> o.content]

\* a handler "except ValueError"
CaughtOnlyValueError(e) == e = "ValueError"

\* "except Exception" of generate_outline and test_connection: every
\* exception class the calls raise derives from Exception
CaughtByExcept(e) == TRUE

\* response[:200] of line 39 raises TypeError on None
PreviewRaises(content) == content.t = "none"

\* generate_outline(topic, num_pages) is called (lines 23-37)
GenerateOutline(tp, n) ==
    /\ pc = "idle"
    /\ op' = "generate_outline"
    /\ pc' = "call_llm"
    /\ topic' = tp
    /\ num_pages' = n
    /\ UNCHANGED <<clientVars, response, exc, result, connected, raised, trace,
                   fbFirst, writerVars, shellVars>>

\* lines 38-39: the call of _call_llm and the preview of what it returned
CallLlm(o) ==
    /\ pc = "call_llm"
    /\ LET r == CallLlmResult(api_key, o) IN
       /\ trace' = IF r.sent THEN Append(trace, "request") ELSE trace
       /\ IF r.exc # "none"
          THEN /\ exc' = r.exc
               /\ pc' = "except"
               /\ UNCHANGED response
          ELSE /\ response' = r.content
               /\ IF PreviewRaises(r.content)
                  THEN exc' = "TypeError" /\ pc' = "except"
                  ELSE exc' = "none" /\ pc' = "parse"
    /\ UNCHANGED <<clientVars, op, topic, num_pages, result, connected, raised,
                   fbFirst, writerVars, shellVars>>

\* lines 40-42 and 169-204: _parse_outline_response up to its return or
\* to the call of the text extraction
ParseResponse ==
    /\ pc = "parse"
    /\ trace' = Append(trace, "parse")
    /\ LET r == ParseOutlineResponse(response, num_pages) IN
       IF r.returned
       THEN result' = r.pages /\ pc' = "done"
       ELSE result' = result /\ pc' = "extract"
    /\ UNCHANGED <<clientVars, op, topic, num_pages, response, exc, connected,
                   raised, fbFirst, writerVars, shellVars>>

\* line 208: _extract_content_from_text; text.split raises AttributeError
\* when the content is not a string
ExtractText ==
    /\ pc = "extract"
    /\ trace' = Append(trace, "extract")
    /\ IF IsStr(response)
       THEN /\ result' = ExtractContentFromText(response.s, num_pages)
            /\ pc' = "done"
            /\ UNCHANGED exc
       ELSE /\ exc' = "AttributeError"
            /\ pc' = "except"
            /\ UNCHANGED result
    /\ UNCHANGED <<clientVars, op, topic, num_pages, response, connected, raised,
                   fbFirst, writerVars, shellVars>>

\* a handler that calls _call_llm once more before it gives up
HandleExceptionRetry ==
    /\ pc = "except"
    /\ IF Len(trace) < 2
       THEN /\ pc' = "call_llm"
            /\ exc' = "none"
            /\ UNCHANGED <<trace, result>>
       ELSE /\ pc' = "done"
            /\ trace' = Append(trace, "fallback")
            /\ result' = GenerateFallbackContent(topic, num_pages)
            /\ UNCHANGED exc
    /\ UNCHANGED <<clientVars, op, topic, num_pages, response, connected,
                   raised, fbFirst, writerVars, shellVars>>

\* lines 43-46: the handler of generate_outline
HandleException ==
    /\ pc = "except"
    /\ IF CaughtByExcept(exc)
       THEN /\ trace' = Append(trace, "fallback")
            /\ result' = GenerateFallbackContent(topic, num_pages)
            /\ UNCHANGED raised
       ELSE /\ raised' = TRUE
            /\ UNCHANGED <<trace, result>>
    /\ pc' = "done"
    /\ UNCHANGED <<clientVars, op, topic, num_pages, response, exc, connected,
                   fbFirst, writerVars, shellVars>>

\* the call returns to its caller
Return ==
    /\ pc = "done"
    /\ op' = "none"
    /\ pc' = "idle"
    /\ topic' = <<>>
    /\ num_pages' = 0
    /\ response' = PNone
    /\ exc' = "none"
    /\ result' = <<>>
    /\ connected' = "none"
    /\ raised' = FALSE
    /\ trace' = <<>>
    /\ UNCHANGED <<clientVars, fbFirst, writerVars, shellVars>>

Next ==
    \/ \E k \in Keys, u \in Urls \cup {"None"}, m \in Models \cup {"None"} :
          SetConfig(k, u, m)
    \/ \E tp \in Topics, n \in PageCounts : GenerateOutline(tp, n)
    \/ \E o \in HttpOutcomes : CallLlm(o)
    \/ ParseResponse
    \/ ExtractText
    \/ HandleException
    \/ Return

Spec == Init /\ [][Next]_vars

(***************************************************************************)
(* Properties of generate_outline.                                         *)
(***************************************************************************)
Returned == op = "generate_outline" /\ pc = "done"

LastStep == IF trace = <<>> THEN "none" ELSE trace[Len(trace)]

Requests == Cardinality({i \in 1..Len(trace) : trace[i] = "request"})

\* the list of the dicts that the objects syms parse to
ObjectsOf(syms) == [i \in 1..Len(syms) |-> JsonObject(syms[i])]

ListInputs == SeqsUpTo(JsonObjectSymbols, MaxItems)

\* the exceptions _call_llm raises
CallExceptions ==
    {"ValueError", "ConnectionError", "Timeout", "Exception", "JSONDecodeError",
     "KeyError"}

\* C1: whatever the model call did, the list generate_outline returns has
\* exactly num_pages entries.
C1_ExactlyNumPages == Returned => Len(result) = num_pages

\* a text response with one page marker, asked for two pages: the extracted
\* page is followed by one padding page
C1_Witness ==
    /\ Returned
    /\ trace = <<"request", "parse", "extract">>
    /\ num_pages = 2
    /\ Len(result) = 2
    /\ result[1].d.points.items = <<>>
    /\ result[2].d.title.s = <<"di", "2", "ye">>

\* json.loads raises on the content, or the content is no string
ParsingRaises ==
    /\ exc \notin CallExceptions
    /\ response # PNone
    /\ \/ ~IsStr(response)
       \/ IsStr(response) /\ ~JsonLoads(CleanResponse(response.s)).ok

\* C2 as claimed: a failed call, and any exception raised while reading or
\* parsing the response, end in a normal return of the fallback outline for
\* the same (topic, num_pages).
C2_AsClaimed ==
    (Returned /\ (exc \in CallExceptions \/ ParsingRaises))
        => /\ ~raised
           /\ result = GenerateFallbackContent(topic, num_pages)

\* C2, amended: generate_outline never leaves an exception to its caller;
\* an exception of _call_llm (missing key, status other than 200, network
\* error, unreadable body) or one that leaves _parse_outline_response ends
\* in the fallback outline for the same (topic, num_pages); a
\* JSONDecodeError of json.loads is caught inside the parser and the text
\* extraction produces the result, no fallback step is taken.
C2_NoErrorPropagates ==
    Returned =>
        /\ ~raised
        /\ exc # "none" =>
              /\ LastStep = "fallback"
              /\ result = GenerateFallbackContent(topic, num_pages)
        /\ (exc = "none" /\ IsStr(response)
                /\ ~JsonLoads(CleanResponse(response.s)).ok)
              => LastStep = "extract"

\* an exception left the parser (the content was an array, not a string) and
\* the fallback outline was returned
C2_Witness ==
    /\ Returned
    /\ exc = "AttributeError"
    /\ trace = <<"request", "parse", "extract", "fallback">>
    /\ result = GenerateFallbackContent(topic, num_pages)

\* C3: a response that is a JSON list of at least num_pages entries yields
\* its first num_pages entries, unmodified and in order.
C3_TruncatesToFirst ==
    \A q \in ListInputs :
        (Returned /\ exc = "none" /\ response = PStr(JsonListText(q))
            /\ Len(q) >= num_pages)
        => result = SubSeq(ObjectsOf(q), 1, num_pages)

\* five slides returned, three asked for
C3_Witness ==
    /\ Returned
    /\ response = PStr(JsonListText(<<"A", "B", "B", "A", "B">>))
    /\ num_pages = 3
    /\ result = ObjectsOf(<<"A", "B", "B">>)

\* C4: a response that is a JSON list of k < num_pages entries yields those
\* k entries followed by the fallback outline of num_pages - k pages for the
\* placeholder topic.
C4_PadsWithFallback ==
    \A q \in ListInputs :
        (Returned /\ exc = "none" /\ response = PStr(JsonListText(q))
            /\ Len(q) < num_pages)
        => result = ObjectsOf(q)
                      \o GenerateFallbackContent(PlaceholderTopic, num_pages - Len(q))

\* two slides returned, five asked for: three synthetic pages follow
C4_Witness ==
    /\ Returned
    /\ response = PStr(JsonListText(<<"B", "A">>))
    /\ num_pages = 5
    /\ Len(result) = 5
    /\ result[3] = IntroSlide(PlaceholderTopic)
    /\ result[5] = SummarySlide(PlaceholderTopic)

\* C5: a call of generate_outline sends at most one request, none when the
\* key is missing, and once _call_llm has raised the only further step is
\* the fallback generation.
C5_OneRequestNoRetry ==
    op = "generate_outline" =>
        /\ Requests <= 1
        /\ KeyMissing(api_key) => Requests = 0
        /\ exc \in CallExceptions =>
              \/ pc = "except" /\ trace \in {<<>>, <<"request">>}
              \/ pc = "done" /\ trace \in {<<"fallback">>, <<"request", "fallback">>}

\* the request timed out and the fallback generation followed
C5_Witness ==
    /\ Returned
    /\ exc = "Timeout"
    /\ trace = <<"request", "fallback">>

\* the points of a slide, and the facts of a point
PointsOf(slide) == slide.d.points.items
FactsOf(point) == point.d.supporting_facts.items

FourPointsTwoFacts(slide) ==
    /\ Len(PointsOf(slide)) = 4
    /\ \A j \in 1..4 :
          /\ Len(FactsOf(PointsOf(slide)[j])) = 2
          /\ \A k \in 1..2 :
                /\ IsDict(FactsOf(PointsOf(slide)[j])[k])
                /\ DOMAIN FactsOf(PointsOf(slide)[j])[k].d = {"fact", "explanation"}

\* C6: the fallback outline for (topic, num_pages) has num_pages slides:
\* the introduction, then the "part N" slides at the positions N of
\* 2..num_pages-1, then the summary if and only if num_pages > 1; every
\* slide has 4 points of 2 structured facts.
C6_FallbackShape ==
    (Returned /\ LastStep = "fallback") =>
        /\ Len(result) = num_pages
        /\ result[1].d.title.s = topic \o <<"# - introduction">>
        /\ \A i \in 2..(num_pages - 1) :
              result[i].d.title.s = topic \o <<"# - ", "di">> \o Str(i) \o <<"#part">>
        /\ (result[Len(result)].d.title.s = topic \o <<"# - summary">>)
              <=> num_pages > 1
        /\ \A i \in 1..Len(result) : FourPointsTwoFacts(result[i])

\* a fallback outline of four pages
C6_Witness ==
    /\ Returned
    /\ LastStep = "fallback"
    /\ num_pages = 4
    /\ result[3].d.title.s = topic \o <<"# - ", "di", "3", "#part">>
    /\ result[4] = SummarySlide(topic)

\* no page-marker keyword occurs in the text
NoPageMarker(text) == \A kw \in PageKeywords : ~Contains(Lower(text), kw)

\* C8: the text extraction of a response without page markers returns
\* num_pages padding slides: slide i carries its position i in the title
\* and has 3 generic points of 2 generic facts.
C8_NoMarkerAllPadding ==
    (Returned /\ LastStep = "extract" /\ NoPageMarker(response.s)) =>
        /\ Len(result) = num_pages
        /\ \A i \in 1..Len(result) :
              /\ result[i] = PadPage(i)
              /\ result[i].d.title.s = <<"di">> \o Str(i) \o <<"ye">>
              /\ Len(PointsOf(result[i])) = 3
              /\ \A j \in 1..3 :
                    /\ Len(FactsOf(PointsOf(result[i])[j])) = 2
                    /\ \A k \in 1..2 : IsDict(FactsOf(PointsOf(result[i])[j])[k])

\* a bullet and an indented line without any page marker, two pages asked
C8_Witness ==
    /\ Returned
    /\ LastStep = "extract"
    /\ response = PStr(<<"-", " ", "x", "\n", " ", " ", "y">>)
    /\ num_pages = 2
    /\ result = <<PadPage(1), PadPage(2)>>

(***************************************************************************)
(* The client under sequences of calls: set_config, test_connection,       *)
(* generate_outline and direct calls of _generate_fallback_content, with   *)
(* an endpoint of few behaviours.                                          *)
(***************************************************************************)
SuccessText == <<"#connection test ok">>

ClientOutcomes ==
    { Outcome("raise", 0, "Timeout", PNone),
      Outcome("response", 500, "none", PNone),
      Outcome("response", 200, "none", PNone),
      Outcome("response", 200, "none", PStr(SuccessText)),
      Outcome("response", 200, "none", PStr(JsonListText(<<"A">>))),
      Outcome("response", 200, "none", PStr(<<"di", "1", "ye", "\n", "-", "x">>)) }

\* test_connection (lines 482-490): "in" raises TypeError on None and is
\* False on a list
TestConnection(o) ==
    /\ pc = "idle"
    /\ op' = "test_connection"
    /\ pc' = "done"
    /\ LET r == CallLlmResult(api_key, o)
           e == IF r.exc # "none" THEN r.exc
                ELSE IF r.content.t = "none" THEN "TypeError"
                ELSE "none"
       IN  /\ trace' = IF r.sent THEN <<"request">> ELSE <<>>
           /\ exc' = e
           /\ raised' = (e # "none" /\ ~CaughtByExcept(e))
           /\ connected' = IF e = "none" /\ IsStr(r.content)
                                /\ Contains(r.content.s, SuccessText)
                           THEN "True"
                           ELSE "False"
    /\ UNCHANGED <<clientVars, topic, num_pages, response, result, fbFirst, writerVars, shellVars>>

\* _generate_fallback_content(topic, num_pages), called directly
FallbackCall(tp, n) ==
    /\ pc = "idle"
    /\ op' = "_generate_fallback_content"
    /\ pc' = "done"
    /\ topic' = tp
    /\ num_pages' = n
    /\ trace' = <<"fallback">>
    /\ result' = GenerateFallbackContent(tp, n)
    /\ fbFirst' = IF fbFirst.set THEN fbFirst
                  ELSE [set |-> TRUE, topic |-> tp, num_pages |-> n,
                        out |-> GenerateFallbackContent(tp, n), model |-> model]
    /\ UNCHANGED <<clientVars, response, exc, connected, raised, writerVars, shellVars>>

NextClient ==
    \/ \E k \in Keys, u \in Urls \cup {"None"}, m \in Models \cup {"None"} :
          SetConfig(k, u, m)
    \/ \E o \in ClientOutcomes : TestConnection(o)
    \/ \E tp \in Topics, n \in PageCounts : FallbackCall(tp, n)
    \/ \E tp \in Topics, n \in PageCounts : GenerateOutline(tp, n)
    \/ \E o \in ClientOutcomes : CallLlm(o)
    \/ ParseResponse
    \/ ExtractText
    \/ HandleException
    \/ Return

SpecClient == Init /\ [][NextClient]_vars

TitleType == 1

Placeholder(ptype) ==
    [kind |-> "placeholder", type |-> ptype, text |-> <<>>, paragraphs |-> <<>>]

TextBox(role, paragraphs) ==
    [kind |-> role, type |-> 0, text |-> <<>>, paragraphs |-> paragraphs]

Paragraph(text) == [text |-> text, runs |-> <<>>]

\* a slide layout: its name, the types of the placeholders a new slide
\* copies, and the number of its date, footer and slide-number placeholders
Layout(name, placeholders, fixed) ==
    [name |-> name, placeholders |-> placeholders, fixed |-> fixed]

\* the layouts of the deck Presentation() opens, by their placeholder types
\* (1 title, 2 body, 3 centered title, 4 subtitle, 7 object)
DefaultDeckLayouts ==
    << Layout("Title Slide", <<3, 4>>, 3),
       Layout("Title and Content", <<1, 7>>, 3),
       Layout("Section Header", <<1, 2>>, 3),
       Layout("Two Content", <<1, 7, 7>>, 3),
       Layout("Comparison", <<1, 2, 7, 2, 7>>, 3),
       Layout("Title Only", <<1>>, 3),
       Layout("Blank", <<>>, 3) >>

\* self.default_layouts (lines 10-14) and .get(style, 1) of line 21
StyleLayouts == [default |-> 1, minimal |-> 6, business |-> 1]

\* a lookup without the default: StyleLayouts.get(style, 0)
LayoutIndexDefaultZero(style) ==
    IF style \in DOMAIN StyleLayouts THEN StyleLayouts[style] ELSE 0

LayoutIndex(style) ==
    IF style \in DOMAIN StyleLayouts THEN StyleLayouts[style] ELSE 1

\* prs.slide_layouts[i], i counted from 0
LayoutAt(layouts, i) == layouts[i + 1]

\* slides.add_slide(layout): the new slide holds a copy of each placeholder
AddSlide(layout) ==
    [layout |-> layout.name,
     shapes |-> [i \in 1..Len(layout.placeholders) |->
                    Placeholder(layout.placeholders[i])]]

\* str(v) inside an f-string: the text of a string, a name for another value
Fmt(v) == IF IsStr(v) THEN v.s ELSE <<"#repr of a ", v.t>>

\* the values a for loop takes from v; ok is FALSE where iter(v) raises
\* TypeError
Iterate(v) ==
    IF IsList(v) THEN [ok |-> TRUE, items |-> v.items]
    ELSE IF IsStr(v) THEN [ok |-> TRUE, items |-> [i \in 1..Len(v.s) |-> PStr(<<v.s[i]>>)]]
    ELSE [ok |-> FALSE, items |-> <<>>]

HasKey(v, key) == IsDict(v) /\ key \in DOMAIN v.d

\* lines 169-180: the text of the run added for one fact
FactRun(fact) ==
    IF HasKey(fact, "fact") /\ HasKey(fact, "explanation")
    THEN <<"#newline and bullet ">> \o Fmt(fact.d.fact) \o <<":", " ">>
            \o Fmt(fact.d.explanation)
    ELSE <<"#newline and bullet ">> \o Fmt(fact)

\* lines 149-194 for one point, numbered i: the paragraph it adds, and whether
\* the loop over its facts raised
PointParagraph(point, i) ==
    IF HasKey(point, "main_point")
    THEN LET head == Paragraph(Str(i) \o <<".", " ">> \o Fmt(point.d.main_point))
             facts == IF "supporting_facts" \in DOMAIN point.d
                      THEN Iterate(point.d.supporting_facts)
                      ELSE [ok |-> TRUE, items |-> <<>>]
         IN  [para |-> [head EXCEPT !.runs =
                           [k \in 1..Len(facts.items) |-> FactRun(facts.items[k])]],
              failed |-> ~facts.ok]
    ELSE [para |-> Paragraph(Str(i) \o <<".", " ">> \o Fmt(point)), failed |-> FALSE]

\* the paragraphs the loop of line 149 adds from the point numbered i on; it
\* stops at the point whose facts cannot be iterated
RECURSIVE PointParagraphs(_, _)
PointParagraphs(points, i) ==
    IF i > Len(points) THEN <<>>
    ELSE LET r == PointParagraph(points[i], i) IN
         IF r.failed THEN <<r.para>>
         ELSE <<r.para>> \o PointParagraphs(points, i + 1)

\* text_frame.clear() leaves one empty paragraph
ClearedFrame == <<Paragraph(<<>>)>>

\* _fill_content_with_formatting (lines 124-196): the paragraphs of the text
\* box; an exception ends the filling and is not raised further
FillContentWithFormatting(page) ==
    IF ~IsDict(page) THEN ClearedFrame
    ELSE LET summary == IF "summary" \in DOMAIN page.d
                        THEN <<Paragraph(<<"#clipboard ">> \o Fmt(page.d.summary))>>
                        ELSE <<>>
             points == IF "points" \in DOMAIN page.d
                       THEN Iterate(page.d.points)
                       ELSE [ok |-> TRUE, items |-> <<>>]
         IN  ClearedFrame \o summary \o PointParagraphs(points.items, 1)

IsTitlePlaceholder(shape) == shape.kind = "placeholder" /\ shape.type = TitleType

\* _create_custom_content_box without the removal of lines 105-119
CreateCustomContentBoxKeepingAll(slide, page) ==
    [slide EXCEPT !.shapes =
        Append(slide.shapes, TextBox("content box", FillContentWithFormatting(page)))]

\* _create_custom_content_box (lines 84-122): the text box is added behind
\* the shapes of the slide and every placeholder but the title is removed
CreateCustomContentBox(slide, page) ==
    [slide EXCEPT !.shapes =
        SelectSeq(slide.shapes, IsTitlePlaceholder)
            \o <<TextBox("content box", FillContentWithFormatting(page))>>]

\* the first shape of the slide that is a title placeholder, 0 if none
FirstTitle(shapes) ==
    IF \E i \in 1..Len(shapes) : IsTitlePlaceholder(shapes[i])
    THEN CHOOSE i \in 1..Len(shapes) :
            /\ IsTitlePlaceholder(shapes[i])
            /\ \A j \in 1..(i - 1) : ~IsTitlePlaceholder(shapes[j])
    ELSE 0

\* _set_slide_title (lines 34-70).  The loop of line 41 asks every shape for
\* placeholder_format until it finds the title; on a text box the library
\* either answers that there is none (strict = FALSE) or raises ValueError,
\* which hasattr lets through to the handler of line 69 (strict = TRUE).
\* Setting a text that is no string raises TypeError, handled at line 69.
SetSlideTitle(slide, title_text, strict) ==
    LET i == FirstTitle(slide.shapes)
        reachesTextBox ==
            \E j \in 1..Len(slide.shapes) :
                /\ slide.shapes[j].kind # "placeholder"
                /\ (i = 0 \/ j < i)
    IN  IF strict /\ reachesTextBox THEN slide
        ELSE IF i > 0
        THEN IF IsStr(title_text)
             THEN [slide EXCEPT !.shapes[i].text = title_text.s]
             ELSE slide
        ELSE [slide EXCEPT !.shapes =
                Append(@, TextBox("title box",
                                  ClearedFrame \o
                                  <<Paragraph(IF IsStr(title_text)
                                              THEN title_text.s ELSE <<>>)>>))]

\* the loop of write_ppt (lines 23-29) over pages: the slides it adds, and
\* the exception that ends it: page["title"] of line 29 raises KeyError when
\* the key is missing
RECURSIVE RenderBlankFrom(_, _, _, _)
RenderBlankFrom(pages, i, slides, strict) ==
    IF i > Len(pages) THEN [exc |-> "none", slides |-> slides]
    ELSE LET slide == CreateCustomContentBox(
                         AddSlide(LayoutAt(DefaultDeckLayouts, 1)), pages[i])
         IN  IF ~HasKey(pages[i], "title")
             THEN [exc |-> "KeyError", slides |-> Append(slides, slide)]
             ELSE RenderBlankFrom(pages, i + 1,
                     Append(slides, SetSlideTitle(slide, pages[i].d.title, strict)),
                     strict)

RenderBlank(pages, strict) == RenderBlankFrom(pages, 1, <<>>, strict)

WriteCall(fn, content, path, style) ==
    [fn |-> fn, content |-> content, path |-> path, style |-> style]

\* write_ppt (lines 16-32): how it ends: the exception it raises, the path
\* it returns, and the deck saved at the path
WritePpt(content, path, style, env) ==
    LET r == RenderBlank(content, env.strict)
        e == IF r.exc # "none" THEN r.exc
             ELSE IF ~env.blank_save_ok THEN "OSError"
             ELSE "none"
    IN  [exc |-> e,
         ret |-> IF e = "none" THEN path ELSE "",
         saved |-> e = "none",
         file |-> IF e = "none" THEN r.slides ELSE <<>>,
         template_exc |-> "none",
         calls |-> <<WriteCall("write_ppt", content, path, style)>>]

LowerName(name) ==
    CASE name = "Title Slide" -> "title slide"
      [] name = "Title and Content" -> "title and content"
      [] name = "Title" -> "title"
      [] name = "Content" -> "content"
      [] name = "Blank" -> "blank"
      [] name = "Cover" -> "cover"
      [] name = "Text" -> "text"
      [] OTHER -> name

TitleNames == {"title slide", "biaoti huandengpian", "title"}
ContentNames == {"title and content", "biaoti he neirong", "content"}

\* len(layout.placeholders)
PlaceholderCount(layout) == Len(layout.placeholders) + layout.fixed

LayoutMatches(layout, layout_type) ==
    IF layout_type = "title"
    THEN LowerName(layout.name) \in TitleNames \/ PlaceholderCount(layout) = 1
    ELSE LowerName(layout.name) \in ContentNames \/ PlaceholderCount(layout) >= 2

\* _find_best_layout (lines 247-269): a sequence holding the layout, empty
\* for None
FindBestLayout(layouts, layout_type) ==
    IF \E i \in 1..Len(layouts) : LayoutMatches(layouts[i], layout_type)
    THEN LET i == CHOOSE i \in 1..Len(layouts) :
                     /\ LayoutMatches(layouts[i], layout_type)
                     /\ \A j \in 1..(i - 1) : ~LayoutMatches(layouts[j], layout_type)
         IN  <<layouts[i]>>
    ELSE IF layouts # <<>> THEN <<layouts[1]>>
    ELSE <<>>

\* _fill_slide_content_with_template (lines 237-245): the KeyError of
\* page_content["title"] is handled at line 244
FillSlideContentWithTemplate(slide, page, strict) ==
    LET boxed == CreateCustomContentBox(slide, page) IN
    IF HasKey(page, "title") THEN SetSlideTitle(boxed, page.d.title, strict)
    ELSE boxed

\* the loop of lines 217-227 from page i on (i counted from 1)
RECURSIVE RenderTemplateFrom(_, _, _, _, _)
RenderTemplateFrom(pages, i, slides, template, strict) ==
    IF i > Len(pages) THEN [exc |-> "none", slides |-> slides]
    ELSE LET title_layout == FindBestLayout(template.layouts, "title")
             content_layout == FindBestLayout(template.layouts, "content")
             chosen == IF i = 1 /\ title_layout # <<>> THEN title_layout
                       ELSE IF content_layout # <<>> THEN content_layout
                       ELSE IF Len(template.layouts) >= 2
                            THEN <<LayoutAt(template.layouts, 1)>>
                       ELSE <<>>
         IN  IF chosen = <<>> THEN [exc |-> "IndexError", slides |-> slides]
             ELSE RenderTemplateFrom(pages, i + 1,
                     Append(slides,
                            FillSlideContentWithTemplate(AddSlide(chosen[1]),
                                                         pages[i], strict)),
                     template, strict)

\* lines 204-230, the body of the try block: Presentation(template_path)
\* raises when the file is no presentation; the new deck starts with the
\* slides of the template
TemplateBuild(content, template, env) ==
    IF ~template.ok THEN [exc |-> "PackageNotFoundError", slides |-> <<>>]
    ELSE LET r == RenderTemplateFrom(content, 1, template.slides, template,
                                     env.strict)
         IN  IF r.exc # "none" THEN r
             ELSE IF ~env.template_save_ok THEN [exc |-> "OSError", slides |-> <<>>]
             ELSE r

\* a handler that re-raises what save raised and falls back on the rest
WritePptWithTemplateReraising(content, template, path, style, env) ==
    LET b == TemplateBuild(content, template, env) IN
    IF b.exc = "none"
    THEN [exc |-> "none", ret |-> path, saved |-> TRUE, file |-> b.slides,
          template_exc |-> "none", calls |-> <<>>]
    ELSE IF b.exc = "OSError"
    THEN [exc |-> "OSError", ret |-> "", saved |-> FALSE, file |-> <<>>,
          template_exc |-> b.exc, calls |-> <<>>]
    ELSE [WritePpt(content, path, style, env) EXCEPT !.template_exc = b.exc]

\* write_ppt_with_template (lines 198-235)
WritePptWithTemplate(content, template, path, style, env) ==
    LET b == TemplateBuild(content, template, env) IN
    IF b.exc = "none"
    THEN [exc |-> "none", ret |-> path, saved |-> TRUE, file |-> b.slides,
          template_exc |-> "none", calls |-> <<>>]
    ELSE [WritePpt(content, path, style, env) EXCEPT !.template_exc = b.exc]

(***************************************************************************)
(* The writer's inputs and its calls.                                      *)
(***************************************************************************)
\* slides of an outline: the two that the JSON objects parse to, and slides
\* with a field that is missing or is None
WriterSlides ==
    { JsonObject("A"),
      JsonObject("B"),
      Slide(<<"c">>, <<"s">>, << Point(<<"m">>, <<PStr(<<"g">>)>>),
                                Point(<<"p">>, <<PDict([fact |-> PStr(<<"g">>)])>>),
                                PDict([main_point |-> PStr(<<"n">>),
                                       supporting_facts |-> PNone]),
                                Point(<<"o">>, <<>>) >>),
      PDict([title |-> PStr(<<"d">>), summary |-> PStr(<<"s">>), points |-> PNone]),
      PDict([title |-> PNone, points |-> PList(<<Point(<<"m">>, <<>>)>>)]),
      PDict([title |-> PStr(<<"e">>)]) }

Outlines == SeqsUpTo(WriterSlides, MaxSlides)

Styles == {"default", "minimal", "business", "fancy", "None"}

OutputPath == "out.pptx"

\* a slide the template file already holds
TemplateSlide == [layout |-> "Cover", shapes |-> <<Placeholder(TitleType)>>]

Templates ==
    { [ok |-> TRUE, slides |-> <<>>,
       layouts |-> << Layout("Title Slide", <<3, 4>>, 3),
                      Layout("Title and Content", <<1, 7>>, 3) >>],
      [ok |-> TRUE, slides |-> <<TemplateSlide>>,
       layouts |-> << Layout("Text", <<1, 2>>, 0), Layout("Cover", <<1>>, 0) >>],
      [ok |-> TRUE, slides |-> <<>>,
       layouts |-> << Layout("Blank", <<>>, 0) >>],
      [ok |-> TRUE, slides |-> <<>>,
       layouts |-> << Layout("Blank", <<>>, 0), Layout("Cover", <<1>>, 0) >>],
      [ok |-> TRUE, slides |-> <<>>, layouts |-> <<>>],
      [ok |-> FALSE, slides |-> <<>>, layouts |-> <<>>] }

WriterEnvs ==
    [strict : BOOLEAN, template_save_ok : BOOLEAN, blank_save_ok : BOOLEAN]

\* writer.write_ppt(formatted_content, output_path, style)
WritePptCall ==
    /\ w_op = "none"
    /\ \E content \in Outlines, style \in Styles, env \in WriterEnvs :
          /\ w_op' = "write_ppt"
          /\ w_content' = content
          /\ w_path' = OutputPath
          /\ w_style' = style
          /\ w_env' = env
          /\ w_out' = WritePpt(content, OutputPath, style, env)
    /\ UNCHANGED <<clientVars, callVars, fbFirst, w_template, shellVars>>

\* writer.write_ppt_with_template(formatted_content, template_path,
\* output_path, style)
WritePptWithTemplateCall ==
    /\ w_op = "none"
    /\ \E content \in Outlines, template \in Templates, style \in Styles,
          env \in WriterEnvs :
          /\ w_op' = "write_ppt_with_template"
          /\ w_content' = content
          /\ w_template' = template
          /\ w_path' = OutputPath
          /\ w_style' = style
          /\ w_env' = env
          /\ w_out' = WritePptWithTemplate(content, template, OutputPath, style, env)
    /\ UNCHANGED <<clientVars, callVars, fbFirst, shellVars>>

\* the call is over and its caller goes on
WriterReturn ==
    /\ w_op # "none"
    /\ w_op' = "none"
    /\ w_content' = <<>>
    /\ w_template' = [ok |-> FALSE, layouts |-> <<>>, slides |-> <<>>]
    /\ w_path' = ""
    /\ w_style' = ""
    /\ w_env' = [strict |-> FALSE, template_save_ok |-> FALSE,
                 blank_save_ok |-> FALSE]
    /\ w_out' = [exc |-> "none", ret |-> "", saved |-> FALSE, file |-> <<>>,
                 template_exc |-> "none", calls |-> <<>>]
    /\ UNCHANGED <<clientVars, callVars, fbFirst, shellVars>>

InitWriter ==
    /\ Init
    /\ api_key = "sk-1"
    /\ base_url = DefaultUrl
    /\ model = "gpt-3.5-turbo"

NextWriter ==
    \/ WritePptCall
    \/ WritePptWithTemplateCall
    \/ WriterReturn

SpecWriter == InitWriter /\ [][NextWriter]_vars

(***************************************************************************)
(* Properties of the writer.                                               *)
(***************************************************************************)
\* C9: write_ppt_with_template lets no failure of the templated build out:
\* when the build raised, it made exactly one call of write_ppt, with the
\* same outline, output path and style, and ended as that call ended; it
\* raises only if that call raised.
C9_TemplateFallsBack ==
    w_op = "write_ppt_with_template" =>
        LET blank == WritePpt(w_content, w_path, w_style, w_env) IN
        /\ w_out.template_exc # "none" =>
              /\ w_out.calls = <<WriteCall("write_ppt", w_content, w_path, w_style)>>
              /\ w_out.exc = blank.exc
              /\ w_out.ret = blank.ret
              /\ w_out.file = blank.file
        /\ w_out.template_exc = "none" =>
              /\ w_out.calls = <<>>
              /\ w_out.exc = "none"
              /\ w_out.ret = w_path
        /\ w_out.exc # "none" =>
              /\ w_out.template_exc # "none"
              /\ blank.exc # "none"

\* saving the templated deck failed and the blank deck was written and
\* returned instead
C9_Witness ==
    /\ w_op = "write_ppt_with_template"
    /\ w_out.template_exc = "OSError"
    /\ w_out.exc = "none"
    /\ w_out.ret = OutputPath
    /\ Len(w_content) = 2
    /\ Len(w_out.file) = 2
    /\ w_out.calls = <<WriteCall("write_ppt", w_content, OutputPath, w_style)>>

\* a field of the slide is missing or is no value of its type
FaultySlide(page) ==
    \/ \E f \in {"title", "summary", "points"} : ~HasKey(page, f)
    \/ HasKey(page, "title") /\ ~IsStr(page.d.title)
    \/ HasKey(page, "points") /\ ~IsList(page.d.points)
    \/ /\ HasKey(page, "points")
       /\ IsList(page.d.points)
       /\ \E i \in 1..Len(page.d.points.items) :
             LET pt == page.d.points.items[i] IN
             \/ ~HasKey(pt, "main_point")
             \/ ~HasKey(pt, "supporting_facts")
             \/ ~IsList(pt.d.supporting_facts)

\* C10: with slides that have missing or malformed fields, and a file
\* system that lets the deck be saved, neither write raises, and the deck
\* holds a slide for every slide of the outline.
C10_FaultyFieldsNeverRaise ==
    (/\ w_op \in {"write_ppt", "write_ppt_with_template"}
     /\ \E i \in 1..Len(w_content) : FaultySlide(w_content[i])
     /\ w_env.blank_save_ok
     /\ w_env.template_save_ok)
    => /\ w_out.exc = "none"
       /\ Len(w_out.file) = Len(w_content)
              + (IF w_out.template_exc = "none" THEN Len(w_template.slides) ELSE 0)

\* no layout of the template passes the content test of _find_best_layout
NoContentLayout(template) ==
    \A i \in 1..Len(template.layouts) : ~LayoutMatches(template.layouts[i], "content")

\* the slides write_ppt_with_template added to the deck it saved
AddedSlides == SubSeq(w_out.file, Len(w_template.slides) + 1, Len(w_out.file))

\* C11: in template mode, with a template that has no content-like layout
\* (and has a layout at index 1), the layout selection does not raise and
\* the content slides (every slide but the first) are made from the layout
\* at index 1, the default layout of the blank-deck write.
C11_ContentFallsBackToIndexOne ==
    (/\ w_op = "write_ppt_with_template"
     /\ w_template.ok
     /\ NoContentLayout(w_template)
     /\ Len(w_template.layouts) >= 2
     /\ w_env.template_save_ok
     /\ Len(w_content) >= 2)
    => /\ w_out.template_exc = "none"
       /\ Len(AddedSlides) = Len(w_content)
       /\ \A i \in 2..Len(AddedSlides) :
             AddedSlides[i].layout \in {LayoutAt(DefaultDeckLayouts, 1).name,
                                        LayoutAt(w_template.layouts, 1).name}

\* the slide has a title, a summary and a list of points, and its first n
\* points are dicts with a main point and a list of facts
WellShaped(page, n) ==
    /\ HasKey(page, "title") /\ IsStr(page.d.title)
    /\ HasKey(page, "summary")
    /\ HasKey(page, "points") /\ IsList(page.d.points)
    /\ n <= Len(page.d.points.items)
    /\ \A j \in 1..n :
          LET pt == page.d.points.items[j] IN
          /\ HasKey(pt, "main_point")
          /\ HasKey(pt, "supporting_facts")
          /\ IsList(pt.d.supporting_facts)

\* the paragraphs of the content box of a rendered slide
ContentBoxParagraphs(slide) ==
    LET i == CHOOSE i \in 1..Len(slide.shapes) : slide.shapes[i].kind = "content box"
    IN  slide.shapes[i].paragraphs

\* the text the claim expects for a fact: the fact, joined to its
\* explanation when it has one
ExpectedFactText(fact) ==
    IF IsStr(fact) THEN <<"#newline and bullet ">> \o fact.s
    ELSE IF HasKey(fact, "fact")
    THEN <<"#newline and bullet ">> \o Fmt(fact.d.fact)
            \o (IF HasKey(fact, "explanation")
                THEN <<":", " ">> \o Fmt(fact.d.explanation)
                ELSE <<>>)
    ELSE <<"#newline and bullet ">> \o Fmt(fact)

\* C12: in a deck write_ppt saved, the run of every supporting fact is the
\* fact joined to its explanation by ": " when it has an explanation and
\* the fact text alone otherwise, for bare strings and for structured facts.
C12_FactTextBothShapes ==
    (w_op = "write_ppt" /\ w_out.exc = "none") =>
        \A i \in 1..Len(w_content), j \in 1..4 :
            WellShaped(w_content[i], j) =>
                LET facts == w_content[i].d.points.items[j].d.supporting_facts.items
                    para == ContentBoxParagraphs(w_out.file[i])[2 + j]
                IN  /\ Len(para.runs) = Len(facts)
                    /\ \A k \in 1..Len(facts) :
                          para.runs[k] = ExpectedFactText(facts[k])

(***************************************************************************)
(* The shell (src/main.py).  Streamlit runs main() from its first line on  *)
(* every interaction, with the values the widgets hold at that moment.     *)
(* use_template is the value of the checkbox of line 39; line 40 replaces  *)
(* the checkbox by the value False, and the upload branch of lines 44-72   *)
(* is followed here for both values.                                       *)
(***************************************************************************)
ShellInputs ==
    [use_template : BOOLEAN, uploaded : BOOLEAN, api_key : BOOLEAN,
     topic : BOOLEAN, generate_btn : BOOLEAN]

\* main() starts (lines 9-43): template_file = None
ShellRun ==
    /\ s_pc \in {"idle", "ended", "raised"}
    /\ s_runs < MaxRuns
    /\ \E in \in ShellInputs : s_in' = in
    /\ s_runs' = s_runs + 1
    /\ s_tmp' = 0
    /\ s_pc' = "upload"
    /\ UNCHANGED <<clientVars, callVars, fbFirst, writerVars, s_files, s_output>>

\* lines 44-72: the uploaded template is written to a new temporary file
\* that is kept after it is closed (delete=False); get_template_info
\* raises nothing
UploadTemplate ==
    /\ s_pc = "upload"
    /\ IF s_in.use_template /\ s_in.uploaded
       THEN /\ s_tmp' = s_runs
            /\ s_files' = s_files \cup {s_runs}
       ELSE UNCHANGED <<s_tmp, s_files>>
    /\ s_pc' = "button"
    /\ UNCHANGED <<clientVars, callVars, fbFirst, writerVars, s_in, s_runs, s_output>>

\* lines 74-79: without the button or the topic the run is over; without
\* the key it returns
GenerateButton ==
    /\ s_pc = "button"
    /\ s_pc' = IF ~(s_in.generate_btn /\ s_in.topic) THEN "ended"
               ELSE IF ~s_in.api_key THEN "ended"
               ELSE "plan"
    /\ UNCHANGED <<clientVars, callVars, fbFirst, writerVars, s_in, s_tmp, s_files,
                   s_runs, s_output>>

\* lines 81-122: plan_content, the preview and format_content; page['title']
\* of line 95 raises KeyError on a slide without a title
PlanAndPreview ==
    /\ s_pc = "plan"
    /\ \E has_titles \in BOOLEAN :
          s_pc' = IF has_titles THEN "render" ELSE "raised"
    /\ UNCHANGED <<clientVars, callVars, fbFirst, writerVars, s_in, s_tmp, s_files,
                   s_runs, s_output>>

\* lines 123-136: the deck is written, with the template when there is one
\* and without it when that raised; what write_ppt raises leaves main()
RenderDeck ==
    /\ s_pc = "render"
    /\ \E written \in BOOLEAN :
          /\ s_pc' = IF written THEN "download" ELSE "raised"
          /\ s_output' = (s_output \/ written)
    /\ UNCHANGED <<clientVars, callVars, fbFirst, writerVars, s_in, s_tmp, s_files,
                   s_runs>>

\* lines 138-146: the download button, then the temporary template and the
\* output file are removed
DownloadAndCleanup ==
    /\ s_pc = "download"
    /\ s_files' = IF s_tmp # 0 THEN s_files \ {s_tmp} ELSE s_files
    /\ s_output' = FALSE
    /\ s_pc' = "ended"
    /\ UNCHANGED <<clientVars, callVars, fbFirst, writerVars, s_in, s_tmp, s_runs>>

InitShell ==
    /\ Init
    /\ api_key = "sk-1"
    /\ base_url = DefaultUrl
    /\ model = "gpt-3.5-turbo"

NextShell ==
    \/ ShellRun
    \/ UploadTemplate
    \/ GenerateButton
    \/ PlanAndPreview
    \/ RenderDeck
    \/ DownloadAndCleanup

SpecShell == InitShell /\ [][NextShell]_vars

TextLines ==
    { <<"P", "a", "g", "e">>,          \* a page marker
      <<"-", " ", "x">>,               \* bullets
      <<"1", ".", "w">>,
      <<"4", ".", "z">>,
      <<" ", " ", "y">>,               \* indented lines
      <<"\t", "v">> }

ExtractTexts ==
    {JoinWith(q, "\n") : q \in SeqsUpTo(TextLines, MaxTextLines) \ {<<>>}}

ExtractOutcomes ==
    {Outcome("response", 200, "none", PStr(r)) : r \in ExtractTexts}
    \cup {Outcome("raise", 0, "Timeout", PNone)}

InitExtract ==
    /\ Init
    /\ api_key = "sk-1"
    /\ base_url = DefaultUrl
    /\ model = "gpt-3.5-turbo"

NextExtract ==
    \/ \E tp \in Topics, n \in PageCounts : GenerateOutline(tp, n)
    \/ \E o \in ExtractOutcomes : CallLlm(o)
    \/ ParseResponse
    \/ ExtractText
    \/ HandleException
    \/ Return

SpecExtract == InitExtract /\ [][NextExtract]_vars

\* the lines of the response that the text extraction has gone through
ResponseLines == Split(response.s, "\n")

\* the number of page-marker lines among the first i lines
MarkersUpTo(lines, i) ==
    Cardinality({j \in 1..i : IsPageMarker(Strip(lines[j]))})

\* the line is neither empty nor a page marker nor a summary line
PlainLine(line) ==
    /\ Strip(line) # <<>>
    /\ ~IsPageMarker(Strip(line))
    /\ ~StartsWithAny(Strip(line), SummaryPrefixes)

\* a line that the loop takes as a point (line 236-244)
IsPointLine(line) ==
    /\ PlainLine(line)
    /\ StartsWithAny(Strip(line), BulletPrefixes)
    /\ LStripSet(Strip(line), PointStripChars) # <<>>

\* a line with leading space or tab indentation that is no bullet line
IsIndentedLine(line) ==
    /\ PlainLine(line)
    /\ line[1] \in {" ", "\t"}
    /\ ~StartsWithAny(Strip(line), BulletPrefixes)

\* the number of point lines among lines[i..j]
PointLinesBetween(lines, i, j) ==
    Cardinality({m \in i..j : IsPointLine(lines[m])})

\* the last page-marker line before line i, 0 if none
LastMarkerBefore(lines, i) ==
    IF \E j \in 1..(i - 1) : IsPageMarker(Strip(lines[j]))
    THEN CHOOSE j \in 1..(i - 1) :
            /\ IsPageMarker(Strip(lines[j]))
            /\ \A m \in (j + 1)..(i - 1) : ~IsPageMarker(Strip(lines[m]))
    ELSE 0

\* C14: in the text extraction, an indented line that follows a bullet line
\* of a slide is appended, as a bare string, to the supporting facts of the
\* point that bullet line made.
C14_IndentedLineBecomesFact ==
    (Returned /\ LastStep = "extract") =>
        \A i \in 2..Len(ResponseLines) :
            LET lines == ResponseLines
                k == MarkersUpTo(lines, i)
                from == LastMarkerBefore(lines, i)
            IN  (/\ IsIndentedLine(lines[i])
                 /\ IsPointLine(lines[i - 1])
                 /\ k >= 1
                 /\ k <= num_pages)
                => LET pts == result[k].d.points.items
                       n == PointLinesBetween(lines, from + 1, i - 1)
                   IN  /\ Len(pts) >= n
                       /\ \E f \in 1..Len(pts[n].d.supporting_facts.items) :
                             pts[n].d.supporting_facts.items[f]
                                = PStr(LStripSet(lines[i], FactStripChars))

\* the bullet markers of the claim: dash, bullet glyph, asterisk, and any
\* digit followed by a period
ClaimedBulletPrefixes ==
    {<<"-">>, <<"BULLET">>, <<"*">>} \cup {<<DigitChar[d], ".">> : d \in 1..10}

IsClaimedBulletLine(line) ==
    /\ PlainLine(line)
    /\ StartsWithAny(Strip(line), ClaimedBulletPrefixes)
    /\ LStripSet(Strip(line), PointStripChars) # <<>>

\* the texts of the bullet lines among lines[i..j], in line order
RECURSIVE ClaimedPointTexts(_, _, _)
ClaimedPointTexts(lines, i, j) ==
    IF i > j THEN <<>>
    ELSE (IF IsClaimedBulletLine(lines[i])
          THEN <<LStripSet(Strip(lines[i]), PointStripChars)>>
          ELSE <<>>)
         \o ClaimedPointTexts(lines, i + 1, j)

\* the k-th page-marker line, and the last line of the slide it starts
MarkerLine(lines, k) ==
    CHOOSE j \in 1..Len(lines) :
        IsPageMarker(Strip(lines[j])) /\ MarkersUpTo(lines, j) = k

LastLineOfSlide(lines, k) ==
    IF MarkersUpTo(lines, Len(lines)) > k
    THEN MarkerLine(lines, k + 1) - 1
    ELSE Len(lines)

\* C15: in the text extraction, the points of a slide are the bullet lines
\* that follow its page marker, one point per line and in line order, each
\* a dict with a list of supporting facts; a line "4." makes a point like
\* "1.", and a bullet line starts no slide.
C15_EveryBulletLineIsPoint ==
    (Returned /\ LastStep = "extract") =>
        LET lines == ResponseLines IN
        \A k \in 1..num_pages :
            k <= MarkersUpTo(lines, Len(lines)) =>
                LET pts == result[k].d.points.items IN
                /\ result[k].d.title.s = Strip(lines[MarkerLine(lines, k)])
                /\ [j \in 1..Len(pts) |-> pts[j].d.main_point.s]
                      = ClaimedPointTexts(lines, MarkerLine(lines, k) + 1,
                                          LastLineOfSlide(lines, k))
                /\ \A j \in 1..Len(pts) : IsList(pts[j].d.supporting_facts)

\* the lists whose JSON text the endpoint also returns inside a code fence
FencedLists == {<<"A">>, <<"B", "A">>, <<"A", "B", "A">>}

\* C16: a response that is the JSON list of num_pages slides inside a code
\* fence, with or without the language tag on the opening fence, yields
\* those slides, as the same list without the fence does.
C16_FenceStripped ==
    \A q \in FencedLists, tag \in {<<>>, <<"j", "s", "o", "n">>} :
        (Returned /\ exc = "none" /\ num_pages = Len(q)
            /\ response = PStr(Fenced(tag, JsonListText(q))))
        => /\ result = ObjectsOf(q)
           /\ result = ParseOutlineResponse(PStr(JsonListText(q)), num_pages).pages

\* the slides the running write made, and the layouts it made them from
RenderedSlides ==
    IF w_op = "write_ppt_with_template" /\ w_out.template_exc = "none"
    THEN AddedSlides
    ELSE w_out.file

UsedLayouts ==
    IF w_op = "write_ppt_with_template" /\ w_out.template_exc = "none"
    THEN w_template.layouts
    ELSE DefaultDeckLayouts

\* the number of title placeholders a slide inherits from the layout named
TitlesOfLayout(layouts, name) ==
    LET i == CHOOSE i \in 1..Len(layouts) : layouts[i].name = name
    IN  Cardinality({j \in 1..Len(layouts[i].placeholders) :
                        layouts[i].placeholders[j] = TitleType})

ShapesOfKind(slide, kind) ==
    {j \in 1..Len(slide.shapes) : slide.shapes[j].kind = kind}

C18_AsClaimed ==
    (w_op = "write_ppt" /\ w_out.exc = "none") =>
        \A i \in 1..Len(w_out.file) :
            w_out.file[i].layout
               = LayoutAt(DefaultDeckLayouts, LayoutIndex(w_style)).name

\* C18, amended: the style selects the index 1 (default), 6 (minimal),
\* 1 (business) and 1 for any other or absent style, but the index is not
\* used: the blank-deck write makes every slide from the layout at index 1,
\* "Title and Content", whatever the style.
C18_StyleIndexUnused ==
    (w_op = "write_ppt" /\ w_out.exc = "none") =>
        /\ LayoutIndex(w_style) = (CASE w_style = "default" -> 1
                                     [] w_style = "minimal" -> 6
                                     [] w_style = "business" -> 1
                                     [] OTHER -> 1)
        /\ Len(w_out.file) = Len(w_content)
        /\ \A i \in 1..Len(w_out.file) :
              w_out.file[i].layout = "Title and Content"

\* a deck of two slides written with the style that selects index 6: both
\* slides come from "Title and Content"
C18_Witness ==
    /\ w_op = "write_ppt"
    /\ w_out.exc = "none"
    /\ w_style = "minimal"
    /\ LayoutIndex(w_style) = 6
    /\ LayoutAt(DefaultDeckLayouts, 6).name = "Blank"
    /\ Len(w_out.file) = 2
    /\ w_out.file[1].layout = "Title and Content"
    /\ w_out.file[2].layout = "Title and Content"

====
